---- MODULE Spec2Model ----
(***************************************************************************)
(* Model of the LiveKit voice agent of this repository, in its two         *)
(* variants: src/agent.py and src/better_agent.py.                         *)
(*                                                                         *)
(* The state is the room's remote participants, the position of the        *)
(* session entrypoint my_agent, the registered inbound RPC handlers, the   *)
(* outbound perform_rpc calls, the invocations of the send_greeting tool   *)
(* and the turn pipeline of the started AgentSession.  A JSON text is a    *)
(* sequence of tokens; json.dumps and json.loads are operators on it.      *)
(***************************************************************************)
EXTENDS Naturals, Sequences, FiniteSets

(* ------------------------------ bounds -------------------------------- *)

\* send_greeting invocations the LLM makes in one run
MaxInvocations == 2
\* tokens of an enumerated inbound dom_elements payload
MaxPayloadLen == 2

(* ------------------------------- JSON --------------------------------- *)

\* tokens of a JSON text: punctuation, string literals, bare words
P(c) == [k |-> "punct", s |-> c]
Str(s) == [k |-> "string", s |-> s]
Bare(s) == [k |-> "bare", s |-> s]

\* JSON values: strings, literals, arrays, objects (ordered key/value pairs)
JStr(s) == [t |-> "str", v |-> <<s>>]
JLit(s) == [t |-> "lit", v |-> <<s>>]
JArr(elems) == [t |-> "arr", v |-> elems]
JObj(pairs) == [t |-> "obj", v |-> pairs]

\* the bare words json.loads accepts as values
Literals == {"true", "false", "null", "1"}

RECURSIVE json_dumps(_)
RECURSIVE DumpElems(_)
RECURSIVE DumpPairs(_)
\* json.dumps: the token sequence of a value
json_dumps(val) ==
    CASE val.t = "str" -> <<Str(val.v[1])>>
      [] val.t = "lit" -> <<Bare(val.v[1])>>
      [] val.t = "arr" -> <<P("[")>> \o DumpElems(val.v) \o <<P("]")>>
      [] val.t = "obj" -> <<P("{")>> \o DumpPairs(val.v) \o <<P("}")>>

DumpElems(elems) ==
    IF elems = <<>> THEN <<>>
    ELSE IF Len(elems) = 1 THEN json_dumps(elems[1])
    ELSE json_dumps(elems[1]) \o <<P(",")>> \o DumpElems(Tail(elems))

DumpPairs(pairs) ==
    IF pairs = <<>> THEN <<>>
    ELSE LET one == <<Str(pairs[1][1]), P(":")>> \o json_dumps(pairs[1][2])
         IN  IF Len(pairs) = 1 THEN one
             ELSE one \o <<P(",")>> \o DumpPairs(Tail(pairs))

\* results of the decoder: a value and the next position, or an error
Parsed(val, next) == [ok |-> TRUE, val |-> val, next |-> next, err |-> <<>>]
Failed(msg, pos) == [ok |-> FALSE, val |-> JLit("null"), next |-> pos,
                     err |-> <<msg, pos>>]

Tok(toks, i) == IF i <= Len(toks) THEN toks[i] ELSE Bare("<end>")

RECURSIVE ParseValue(_, _)
RECURSIVE ParseElems(_, _, _)
RECURSIVE ParsePairs(_, _, _)
\* the decoder's scan of one value starting at token i
ParseValue(toks, i) ==
    LET tk == Tok(toks, i) IN
    IF i > Len(toks) THEN Failed("Expecting value", i)
    ELSE IF tk.k = "string" THEN Parsed(JStr(tk.s), i + 1)
    ELSE IF tk.k = "bare" THEN
        IF tk.s \in Literals THEN Parsed(JLit(tk.s), i + 1)
        ELSE Failed("Expecting value", i)
    ELSE IF tk.s = "[" THEN
        IF Tok(toks, i + 1) = P("]") THEN Parsed(JArr(<<>>), i + 2)
        ELSE ParseElems(toks, i + 1, <<>>)
    ELSE IF tk.s = "{" THEN
        IF Tok(toks, i + 1) = P("}") THEN Parsed(JObj(<<>>), i + 2)
        ELSE ParsePairs(toks, i + 1, <<>>)
    ELSE Failed("Expecting value", i)

\* the elements of an array after "[" (or after a ","), acc the ones read
ParseElems(toks, i, acc) ==
    LET r == ParseValue(toks, i) IN
    IF ~r.ok THEN r
    ELSE LET acc2 == Append(acc, r.val)
             sep == Tok(toks, r.next)
         IN  IF sep = P("]") THEN Parsed(JArr(acc2), r.next + 1)
             ELSE IF sep = P(",") THEN ParseElems(toks, r.next + 1, acc2)
             ELSE Failed("Expecting ',' delimiter", r.next)

\* the members of an object after "{" (or after a ","), acc the ones read
ParsePairs(toks, i, acc) ==
    LET key == Tok(toks, i) IN
    IF i > Len(toks) \/ key.k # "string"
    THEN Failed("Expecting property name enclosed in double quotes", i)
    ELSE IF Tok(toks, i + 1) # P(":")
    THEN Failed("Expecting ':' delimiter", i + 1)
    ELSE LET r == ParseValue(toks, i + 2) IN
         IF ~r.ok THEN r
         ELSE LET acc2 == Append(acc, <<key.s, r.val>>)
                  sep == Tok(toks, r.next)
              IN  IF sep = P("}") THEN Parsed(JObj(acc2), r.next + 1)
                  ELSE IF sep = P(",") THEN ParsePairs(toks, r.next + 1, acc2)
                  ELSE Failed("Expecting ',' delimiter", r.next)

\* json.loads: one value, then the end of the text
json_loads(toks) ==
    LET r == ParseValue(toks, 1) IN
    IF ~r.ok THEN r
    ELSE IF r.next <= Len(toks) THEN Failed("Extra data", r.next)
    ELSE r

(* --------------------------- program state ---------------------------- *)

VARIABLES
    variant,    \* which source file runs: "agent" or "better_agent"
    pc,         \* position of the entrypoint my_agent
    crash,      \* the exception that ended my_agent, or "none"
    steps,      \* the setup steps my_agent has performed, in order
    remote,     \* room.remote_participants: identities in join order
    p,          \* the participant wait_for_participant resolved to
    handlers,   \* registered inbound RPC methods: <<method, handler>> pairs
    started,    \* session.start has completed
    tc,         \* state of the Turn Controller
    greetings,  \* calls of session.generate_reply by my_agent
    diag,       \* the startup perform_rpc call of my_agent
    toolCall,   \* the perform_rpc call of the latest send_greeting invocation
    late,       \* origins of timed-out calls whose response is still coming
    toolPc,     \* position of the running send_greeting invocation
    inv,        \* the latest send_greeting invocation
    nInv,       \* send_greeting invocations so far
    domReq,     \* payload of the last inbound dom_elements invocation
    domResp,    \* what handle_dom_elements_rpc returned for it
    domSeen     \* "none", or whether an inbound invocation has failed yet

vars == <<variant, pc, crash, steps, remote, p, handlers, started, tc,
          greetings, diag, toolCall, late, toolPc, inv, nInv, domReq,
          domResp, domSeen>>

entryVars == <<pc, crash, steps, handlers, started, greetings>>
toolVars == <<toolPc, inv, nInv>>
domVars == <<domReq, domResp, domSeen>>

Variants == {"agent", "better_agent"}
\* identities a remote participant can have; agent.py addresses "client"
Ids == {"client", "user-1"}
None == "<none>"

\* the results perform_rpc can end with: a response, or an RpcError
Outcomes == {"Success", "Timeout", "TargetNotFound", "RemoteError",
             "TransportFailure"}

\* str(e) of the RpcError perform_rpc raises
RpcErrorText(outcome) ==
    CASE outcome = "Timeout" -> "Response timeout"
      [] outcome = "TargetNotFound" -> "Recipient not found"
      [] outcome = "RemoteError" -> "Application error in method handler"
      [] outcome = "TransportFailure" -> "Failed to send"

SeqToSet(s) == {s[i] : i \in 1..Len(s)}

\* list(room.remote_participants.values()) without one identity
Without(s, id) == SelectSeq(s, LAMBDA x : x # id)

\* a perform_rpc call handed to the room transport; present: the destination
\* is a remote participant of the room when the call is made
Call(origin, dest, method, payload) ==
    [origin |-> origin, dest |-> dest, method |-> method, payload |-> payload,
     present |-> dest \in SeqToSet(remote), outcome |-> "pending"]

NoCall ==
    [origin |-> "none", dest |-> None, method |-> None, payload |-> <<>>,
     present |-> FALSE, outcome |-> "none"]

Made(call) == call.origin # "none"
Pending(call) == call.outcome = "pending"
Resolved(call) == call.outcome \in Outcomes

(* ---------------------- the entrypoint my_agent ----------------------- *)

\* payload of the startup call of agent.py, and of its send_greeting: not JSON
HelloPayload == <<Bare("Hello"), Bare("from"), Bare("RPC!")>>

\* payload of the startup call of better_agent.py
DirectTestPayload ==
    json_dumps(JObj(<<<<"message", JStr("Direct test from agent startup")>>,
                      <<"test", JLit("true")>>>>))

\* the startup perform_rpc call of either variant
DiagCall ==
    IF variant = "agent"
    THEN Call("diag", "client", "client.greet", HelloPayload)
    ELSE Call("diag", p, "client.greet", DirectTestPayload)

NoInv == [arg |-> None, message |-> None, roomAt |-> <<>>, ncalls |-> 0,
          results |-> <<>>]

Init ==
    /\ variant \in Variants
    /\ pc = "connect"
    /\ crash = "none"
    /\ steps = <<>>
    /\ remote = <<>>
    /\ p = None
    /\ handlers = {}
    /\ started = FALSE
    /\ tc = "Idle"
    /\ greetings = 0
    /\ diag = NoCall
    /\ toolCall = NoCall
    /\ late = {}
    /\ toolPc = "idle"
    /\ inv = NoInv
    /\ nInv = 0
    /\ domReq = <<>>
    /\ domResp = <<>>
    /\ domSeen = "none"

\* the rooms ctx.connect() can find: empty, or one participant already in
RoomsAtConnect == {<<>>} \cup {<<id>> : id \in Ids}

\* await ctx.connect() returns, wait_for_participant() is called
Connect ==
    /\ pc = "connect"
    /\ \E r \in RoomsAtConnect :
        /\ remote' = r
        /\ p' = IF r # <<>> THEN r[1] ELSE None
    /\ pc' = "wait"
    /\ steps' = Append(steps, "connect")
    /\ tc' = "AwaitingParticipant"
    /\ UNCHANGED <<variant, crash, handlers, started, greetings, diag,
                   toolCall, late, toolVars, domVars>>

\* a my_agent that swallows the exception of ctx.connect() and goes on to
\* wait for a participant
ConnectFailsSwallowed ==
    /\ pc = "connect"
    /\ pc' = "wait"
    /\ tc' = "AwaitingParticipant"
    /\ UNCHANGED <<variant, crash, steps, handlers, started, greetings,
                   remote, p, diag, toolCall, late, toolVars, domVars>>

\* await ctx.connect() raises
ConnectFails ==
    /\ pc = "connect"
    /\ pc' = "crashed"
    /\ crash' = "ConnectionError"
    /\ tc' = "Ended"
    /\ UNCHANGED <<variant, steps, remote, p, handlers, started, greetings,
                   diag, toolCall, late, toolVars, domVars>>

\* a registry that keeps an earlier handler next to a later one
RegisterKeepsBoth(method, handler) ==
    handlers \cup {<<method, handler>>}

\* registering a handler under a method replaces the one registered before
Register(method, handler) ==
    {h \in handlers : h[1] # method} \cup {<<method, handler>>}

\* agent.py without its wait for a participant: the setup runs as soon as
\* the room is connected
AgentSetupNoWait ==
    /\ variant = "agent"
    /\ pc = "wait"
    /\ handlers' = Register("dom_elements", "handle_dom_elements_rpc")
    /\ steps' = steps \o <<"participant", "register">>
    /\ IF remote = <<>>
       THEN /\ pc' = "crashed"
            /\ crash' = "IndexError"
            /\ tc' = "Ended"
       ELSE /\ pc' = "starting"
            /\ UNCHANGED <<crash, tc>>
    /\ UNCHANGED <<variant, remote, p, started, greetings, diag, toolCall,
                   late, toolVars, domVars>>

\* agent.py: wait_for_participant() has returned; the handler is registered,
\* the first remote participant is looked up, session.start() is called
AgentSetup ==
    /\ variant = "agent"
    /\ pc = "wait"
    /\ p # None
    /\ handlers' = Register("dom_elements", "handle_dom_elements_rpc")
    /\ steps' = steps \o <<"participant", "register">>
    /\ IF remote = <<>>
       THEN /\ pc' = "crashed"
            /\ crash' = "IndexError"
            /\ tc' = "Ended"
       ELSE /\ pc' = "starting"
            /\ UNCHANGED <<crash, tc>>
    /\ UNCHANGED <<variant, remote, p, started, greetings, diag, toolCall,
                   late, toolVars, domVars>>

\* better_agent.py: wait_for_participant() has returned; the direct test
\* call to p.identity is made
BetterSetup ==
    /\ variant = "better_agent"
    /\ pc = "wait"
    /\ p # None
    /\ diag' = DiagCall
    /\ steps' = steps \o <<"participant", "diag">>
    /\ pc' = "diag_wait"
    /\ UNCHANGED <<variant, crash, remote, p, handlers, started, tc,
                   greetings, toolCall, late, toolVars, domVars>>

\* await session.start() returns; agent.py makes its startup call next,
\* better_agent.py calls session.generate_reply()
StartDone ==
    /\ pc = "starting"
    /\ started' = TRUE
    /\ tc' = "Listening"
    /\ IF variant = "agent"
       THEN /\ diag' = DiagCall
            /\ steps' = steps \o <<"start", "diag">>
            /\ pc' = "diag_wait"
            /\ UNCHANGED greetings
       ELSE /\ greetings' = greetings + 1
            /\ steps' = Append(steps, "start")
            /\ pc' = "greeting"
            /\ UNCHANGED diag
    /\ UNCHANGED <<variant, crash, remote, p, handlers, toolCall, late,
                   toolVars, domVars>>

\* the startup call without its except clause: the RpcError of a failed
\* call ends my_agent
DiagReturnNoCatch ==
    /\ pc = "diag_wait"
    /\ Resolved(diag)
    /\ IF diag.outcome # "Success"
       THEN /\ pc' = "crashed"
            /\ crash' = "RpcError"
            /\ UNCHANGED greetings
       ELSE IF variant = "agent"
       THEN /\ greetings' = greetings + 1
            /\ pc' = "greeting"
            /\ UNCHANGED crash
       ELSE /\ pc' = "starting"
            /\ UNCHANGED <<greetings, crash>>
    /\ UNCHANGED <<variant, steps, remote, p, handlers, started, tc, diag,
                   toolCall, late, toolVars, domVars>>

\* the startup call has resolved: its result or its exception is printed;
\* agent.py calls session.generate_reply() next, better_agent.py
\* session.start()
DiagReturn ==
    /\ pc = "diag_wait"
    /\ Resolved(diag)
    /\ IF variant = "agent"
       THEN /\ greetings' = greetings + 1
            /\ pc' = "greeting"
       ELSE /\ pc' = "starting"
            /\ UNCHANGED greetings
    /\ UNCHANGED <<variant, crash, steps, remote, p, handlers, started, tc,
                   diag, toolCall, late, toolVars, domVars>>

\* await session.generate_reply() returns: my_agent ends
GreetDone ==
    /\ pc = "greeting"
    /\ pc' = "done"
    /\ UNCHANGED <<variant, crash, steps, remote, p, handlers, started, tc,
                   greetings, diag, toolCall, late, toolVars, domVars>>

EntryNext ==
    \/ Connect
    \/ ConnectFails
    \/ AgentSetup
    \/ BetterSetup
    \/ StartDone
    \/ DiagReturn
    \/ GreetDone

(* ------------------- the room and its RPC transport -------------------- *)

Connected == pc # "connect" /\ crash # "ConnectionError"

\* participant_connected: a pending wait_for_participant() resolves to it
Join(id) ==
    /\ Connected
    /\ id \notin SeqToSet(remote)
    /\ remote' = Append(remote, id)
    /\ p' = IF pc = "wait" /\ p = None THEN id ELSE p
    /\ UNCHANGED <<variant, entryVars, tc, diag, toolCall, late, toolVars,
                   domVars>>

\* participant_disconnected
Leave(id) ==
    /\ Connected
    /\ id \in SeqToSet(remote)
    /\ remote' = Without(remote, id)
    /\ UNCHANGED <<variant, entryVars, p, tc, diag, toolCall, late, toolVars,
                   domVars>>

\* a pending call ends: with the response of a destination that is in the
\* room, or with an RpcError; after a timeout the response of a present
\* destination may still be on its way
Resolution(call, outcome) ==
    /\ Pending(call)
    /\ outcome = "Success" => call.dest \in SeqToSet(remote)
    /\ \E stillComing \in BOOLEAN :
        /\ stillComing => (outcome = "Timeout"
                           /\ call.dest \in SeqToSet(remote))
        /\ late' = IF stillComing THEN late \cup {call.origin} ELSE late

\* the startup call ends
ResolveDiag(outcome) ==
    /\ Resolution(diag, outcome)
    /\ diag' = [diag EXCEPT !.outcome = outcome]
    /\ UNCHANGED <<variant, entryVars, remote, p, tc, toolCall, toolVars,
                   domVars>>

\* the call of the running send_greeting invocation ends
ResolveTool(outcome) ==
    /\ Resolution(toolCall, outcome)
    /\ toolCall' = [toolCall EXCEPT !.outcome = outcome]
    /\ UNCHANGED <<variant, entryVars, remote, p, tc, diag, toolVars,
                   domVars>>

\* the response of a call that has timed out arrives: no call is waiting
\* for it, it is dropped
LateResponse(origin) ==
    /\ origin \in late
    /\ late' = late \ {origin}
    /\ UNCHANGED <<variant, entryVars, remote, p, tc, diag, toolCall,
                   toolVars, domVars>>

RoomNext ==
    \/ \E id \in Ids : Join(id)
    \/ \E id \in Ids : Leave(id)

RpcNext ==
    \/ \E outcome \in Outcomes : ResolveDiag(outcome)
    \/ \E outcome \in Outcomes : ResolveTool(outcome)
    \/ \E origin \in late : LateResponse(origin)

(* ----------------------- the tool send_greeting ----------------------- *)

\* what the LLM passes as message: a text, or nothing
NoArg == "<no argument>"
Args == {"hi", NoArg}

\* the default of the parameter message
DefaultMessage ==
    IF variant = "agent" THEN "hello client from agent!"
    ELSE "Hello from the agent!"

\* rpc_context['room'] of better_agent.py: my_agent always stores ctx.room
HasRoom == TRUE

NoConnectionText == "I can't send a greeting right now - no connection to client."
NoClientText == "I can't send a greeting - no client connected."

\* payload of the call send_greeting of better_agent.py makes
GreetPayload(message) ==
    json_dumps(JObj(<<<<"message", JStr(message)>>, <<"from", JStr("agent")>>>>))

Invocation(arg, message, ncalls, results) ==
    [arg |-> arg, message |-> message, roomAt |-> remote, ncalls |-> ncalls,
     results |-> results]

\* the LLM invokes send_greeting: the body runs up to its await
SendGreeting(arg) ==
    LET message == IF arg = NoArg THEN DefaultMessage ELSE arg IN
    /\ started
    /\ tc = "Inferring"
    /\ toolPc = "idle"
    /\ nInv < MaxInvocations
    /\ nInv' = nInv + 1
    /\ IF variant = "agent"
       THEN /\ toolCall' = Call("tool", "client", "client.greet", HelloPayload)
            /\ inv' = Invocation(arg, message, 1, <<>>)
            /\ toolPc' = "await"
       ELSE IF ~HasRoom
       THEN /\ inv' = Invocation(arg, message, 0, <<NoConnectionText>>)
            /\ toolCall' = NoCall
            /\ UNCHANGED toolPc
       ELSE IF remote = <<>>
       THEN /\ inv' = Invocation(arg, message, 0, <<NoClientText>>)
            /\ toolCall' = NoCall
            /\ UNCHANGED toolPc
       ELSE /\ toolCall' = Call("tool", remote[1], "client.greet",
                                GreetPayload(message))
            /\ inv' = Invocation(arg, message, 1, <<>>)
            /\ toolPc' = "await"
    /\ UNCHANGED <<variant, entryVars, remote, p, tc, diag, late,
                   domVars>>

\* a send_greeting that reports a failure whatever its call ended with
GreetingResultAlwaysFailed(message, outcome) ==
    IF variant = "agent"
    THEN "Failed to send greeting. error: " \o RpcErrorText("Timeout")
    ELSE "Failed to send greeting: " \o RpcErrorText("Timeout")

\* the text send_greeting returns for the result of its call
GreetingResult(message, outcome) ==
    IF outcome = "Success" THEN "Greeting sent to client: " \o message
    ELSE IF variant = "agent"
    THEN "Failed to send greeting. error: " \o RpcErrorText(outcome)
    ELSE "Failed to send greeting: " \o RpcErrorText(outcome)

\* send_greeting without its except clause: the RpcError of a failed call
\* leaves the tool and ends the turn
SendGreetingReturnNoCatch ==
    /\ toolPc = "await"
    /\ Resolved(toolCall)
    /\ IF toolCall.outcome = "Success"
       THEN /\ inv' = [inv EXCEPT !.results =
                           Append(@, GreetingResult(inv.message, "Success"))]
            /\ UNCHANGED tc
       ELSE /\ tc' = "Ended"
            /\ UNCHANGED inv
    /\ toolPc' = "idle"
    /\ UNCHANGED <<variant, entryVars, remote, p, diag, toolCall, late, nInv,
                   domVars>>

\* send_greeting retrying a call that timed out instead of returning
SendGreetingReturnRetry ==
    /\ toolPc = "await"
    /\ Resolved(toolCall)
    /\ IF toolCall.outcome = "Timeout" /\ inv.ncalls < 2
       THEN /\ toolCall' = [toolCall EXCEPT !.outcome = "pending"]
            /\ inv' = [inv EXCEPT !.ncalls = @ + 1]
            /\ UNCHANGED toolPc
       ELSE /\ inv' = [inv EXCEPT !.results =
                           Append(@, GreetingResult(inv.message,
                                                    toolCall.outcome))]
            /\ toolPc' = "idle"
            /\ UNCHANGED toolCall
    /\ UNCHANGED <<variant, entryVars, remote, p, tc, diag, late, nInv,
                   domVars>>

\* send_greeting not awaiting its call: it returns the success text while
\* the call is still pending
SendGreetingReturnNoAwait ==
    /\ toolPc = "await"
    /\ inv' = [inv EXCEPT !.results =
                   Append(@, GreetingResult(inv.message, "Success"))]
    /\ toolPc' = "idle"
    /\ UNCHANGED <<variant, entryVars, remote, p, tc, diag, toolCall, late,
                   nInv, domVars>>

\* the call of the running invocation has resolved: send_greeting returns
SendGreetingReturn ==
    /\ toolPc = "await"
    /\ Resolved(toolCall)
    /\ inv' = [inv EXCEPT !.results =
                   Append(@, GreetingResult(inv.message, toolCall.outcome))]
    /\ toolPc' = "idle"
    /\ UNCHANGED <<variant, entryVars, remote, p, tc, diag, toolCall, late,
                   nInv, domVars>>

ToolNext ==
    \/ \E arg \in Args : SendGreeting(arg)
    \/ SendGreetingReturn

(* ------------------ the started session's turn pipeline ---------------- *)

\* the end of a user utterance is detected
UtteranceEnd ==
    /\ started
    /\ tc = "Listening"
    /\ tc' = "Transcribing"
    /\ UNCHANGED <<variant, entryVars, remote, p, diag, toolCall, late,
                   toolVars, domVars>>

\* a pipeline that speaks a reply without running the LLM
TranscriptSkipsInference ==
    /\ tc = "Transcribing"
    /\ tc' = "Speaking"
    /\ UNCHANGED <<variant, entryVars, remote, p, diag, toolCall, late,
                   toolVars, domVars>>

\* the transcript is ready: the LLM runs
Transcript ==
    /\ tc = "Transcribing"
    /\ tc' = "Inferring"
    /\ UNCHANGED <<variant, entryVars, remote, p, diag, toolCall, late,
                   toolVars, domVars>>

\* the LLM answers with a spoken reply
LlmReply ==
    /\ tc = "Inferring"
    /\ toolPc = "idle"
    /\ tc' = "Speaking"
    /\ UNCHANGED <<variant, entryVars, remote, p, diag, toolCall, late,
                   toolVars, domVars>>

\* playback of the reply ends
PlaybackDone ==
    /\ tc = "Speaking"
    /\ tc' = "Listening"
    /\ UNCHANGED <<variant, entryVars, remote, p, diag, toolCall, late,
                   toolVars, domVars>>

\* the session's room I/O captures or plays one audio frame: it runs while
\* the session is started and moves none of the state kept here
AudioIO ==
    /\ started
    /\ UNCHANGED vars

PipelineNext ==
    \/ UtteranceEnd
    \/ Transcript
    \/ LlmReply
    \/ PlaybackDone
    \/ AudioIO

(* ------------------- the inbound handler dom_elements ------------------ *)

Digits == <<"0", "1", "2", "3", "4", "5", "6", "7", "8", "9">>

RECURSIVE NatText(_)
\* str() of a natural number
NatText(n) ==
    IF n < 10 THEN Digits[n + 1]
    ELSE NatText(n \div 10) \o Digits[(n % 10) + 1]

\* str(e) of the JSONDecodeError json.loads raises
DecodeErrorText(err) == err[1] \o ": char " \o NatText(err[2] - 1)

DomResponse(success, message) ==
    json_dumps(JObj(<<<<"success", JLit(IF success THEN "true" ELSE "false")>>,
                      <<"message", JStr(message)>>>>))

\* the handler without its except clause: a payload json.loads rejects
\* gets no response
handle_dom_elements_rpc_NoCatch(payload) ==
    LET r == json_loads(payload) IN
    IF r.ok THEN DomResponse(TRUE, "DOM elements received and stored")
    ELSE <<>>

\* what the registered handler returns for a payload
handle_dom_elements_rpc(payload) ==
    LET r == json_loads(payload) IN
    IF r.ok THEN DomResponse(TRUE, "DOM elements received and stored")
    ELSE DomResponse(FALSE, DecodeErrorText(r.err))

\* tokens of the enumerated payloads
Alphabet == {P("["), P("]"), P("{"), P("}"), P(":"), P(","), Str("a"),
             Bare("not")}

\* DOM element descriptors as the client sends them
DomElementsText ==
    json_dumps(JArr(<<JObj(<<<<"a", JStr("a")>>>>),
                      JObj(<<<<"a", JLit("1")>>, <<"a", JStr("a")>>>>)>>))

SamplePayloads ==
    { <<P("{"), Bare("not"), Bare("valid"), Bare("json")>>,
      DomElementsText,
      SubSeq(DomElementsText, 1, Len(DomElementsText) - 1),
      DomElementsText \o <<P("]")>>,
      <<P("["), Str("a"), P(","), P("]")>>,
      <<P("["), Str("a"), P(","), Bare("1"), P("]")>>,
      <<P("["), P("["), P("]"), P("]")>>,
      <<P("{"), Str("a"), P(":"), Str("a"), P("}")>>,
      <<P("{"), Str("a"), P(":"), Str("a"), P(","), P("}")>>,
      <<P("{"), Str("a"), Str("a"), P("}")>>,
      <<P("{"), Bare("1"), P(":"), Str("a"), P("}")>>,
      <<P("["), Str("a"), P("]"), P("]")>>,
      <<Bare("1")>> }

Payloads ==
    UNION {[1..n -> Alphabet] : n \in 0..MaxPayloadLen} \cup SamplePayloads

\* a remote participant invokes the method dom_elements with a payload
InvokeDomElements(payload) ==
    /\ remote # <<>>
    /\ <<"dom_elements", "handle_dom_elements_rpc">> \in handlers
    /\ domReq' = payload
    /\ domResp' = handle_dom_elements_rpc(payload)
    /\ domSeen' = IF domSeen = "failed" \/ ~json_loads(payload).ok
                   THEN "failed" ELSE "ok"
    /\ UNCHANGED <<variant, entryVars, remote, p, tc, diag, toolCall, late,
                   toolVars>>

InboundNext == \E payload \in Payloads : InvokeDomElements(payload)

(* --------------------------- specifications ---------------------------- *)

\* the session: entrypoint, room events, outbound calls, turns, tool
Next ==
    \/ EntryNext
    \/ RoomNext
    \/ RpcNext
    \/ ToolNext
    \/ PipelineNext

Spec == Init /\ [][Next]_vars

\* the entrypoint up to its startup call, in a room whose participants are
\* the ones found at connect, with the inbound invocations of dom_elements;
\* the handler reads and writes nothing of the session, whose calls and
\* turns are left out here
DomNext ==
    \/ Connect
    \/ ConnectFails
    \/ AgentSetup
    \/ BetterSetup
    \/ StartDone
    \/ InboundNext

DomSpec == Init /\ [][DomNext]_vars

(* ------------------------------- claims -------------------------------- *)

\* the latest send_greeting invocation has returned
Returned == nInv > 0 /\ toolPc = "idle"

\* texts that tell the user no client is there
NoClientTexts == {NoClientText, NoConnectionText}

\* C1: when the room has no remote participant as send_greeting is invoked,
\* the tool returns a failure text about the absent client and makes no
\* outbound call.
C1_NoParticipantNoCall ==
    (nInv > 0 /\ inv.roomAt = <<>>) =>
        /\ inv.ncalls = 0
        /\ ~Made(toolCall)
        /\ Len(inv.results) = 1
        /\ inv.results[1] \in NoClientTexts

\* C2: when id is the only remote participant and send_greeting(message=m)
\* is invoked, one call is made, to client.greet, to id, with the JSON
\* payload {message: m, from: "agent"}; when it succeeds the tool returns
\* "Greeting sent to client: m".
C2_GreetingCall ==
    (nInv > 0 /\ Len(inv.roomAt) = 1) =>
        /\ inv.ncalls = 1
        /\ toolCall.method = "client.greet"
        /\ toolCall.dest = inv.roomAt[1]
        /\ json_loads(toolCall.payload).ok
        /\ json_loads(toolCall.payload).val =
               JObj(<<<<"message", JStr(inv.message)>>,
                      <<"from", JStr("agent")>>>>)
        /\ (Returned /\ toolCall.outcome = "Success") =>
               inv.results = <<"Greeting sent to client: " \o inv.message>>

\* the texts send_greeting returns for a failed call
FailureTexts ==
    {pre \o RpcErrorText(o) :
        pre \in {"Failed to send greeting: ",
                 "Failed to send greeting. error: "},
        o \in Outcomes \ {"Success"}}

\* C3: every send_greeting invocation that completes returns one text; a
\* call that ends without success gives a failure text, and the failure
\* does not reach the Turn Controller.
C3_ToolAlwaysReturnsText ==
    Returned =>
        /\ Len(inv.results) = 1
        /\ inv.results[1] \in STRING
        /\ tc # "Ended"
        /\ (Made(toolCall) /\ toolCall.outcome # "Success") =>
               inv.results[1] \in FailureTexts

\* a send_greeting invocation has returned after its call timed out
C3_Witness ==
    /\ Returned
    /\ toolCall.outcome = "Timeout"
    /\ Len(inv.results) = 1

\* JSON values written out by their grammar, two levels deep
Scalars == {JStr("a"), JLit("1")}
UpToTwo(S) == {<<>>} \cup {<<x>> : x \in S} \cup {<<x, y>> : x \in S, y \in S}
OneLevel(S) ==
    S \cup {JArr(e) : e \in UpToTwo(S)}
      \cup {JObj(m) : m \in UpToTwo({<<"a", x>> : x \in S})}
ValidDocs == {json_dumps(val) : val \in OneLevel(OneLevel(Scalars))}

\* the object a dom_elements response decodes to
DomReply == json_loads(domResp)

SetupOrder == <<"connect", "participant", "register", "start", "diag">>

IsPrefix(a, b) == Len(a) <= Len(b) /\ a = SubSeq(b, 1, Len(a))

\* C5: the setup steps of the entrypoint occur in the order connect,
\* participant present, dom_elements handler registered, session.start, and
\* only then the startup call; a run that ends has skipped none of the
\* first four.
C5_SetupOrder ==
    /\ IsPrefix(steps, SetupOrder)
    /\ pc = "done" => Len(steps) >= 4

\* C6: whatever the startup call ends with, the entrypoint goes on: it has
\* not ended with an exception, it has a next step until it is done, and
\* when it is done the session is started and the greeting was generated.
C6_DiagnosticNonFatal ==
    Resolved(diag) =>
        /\ crash = "none"
        /\ pc \in {"diag_wait", "starting", "greeting", "done"}
        /\ pc # "done" => ENABLED EntryNext
        /\ pc = "done" => (started /\ greetings = 1)

\* the entrypoint is done after a startup call that timed out
C6_Witness ==
    /\ pc = "done"
    /\ diag.outcome = "Timeout"
    /\ started
    /\ greetings = 1

\* C7: an outbound call whose destination is not a remote participant when
\* the call is made ends with TargetNotFound, without being handed to the
\* transport.
C7_AbsentTargetNotDispatched ==
    \A call \in {diag, toolCall} :
        (Made(call) /\ ~call.present) => call.outcome = "TargetNotFound"

\* C8: the initial greeting is generated once, as soon as the session is
\* started, waiting for nothing else.
C8_GreetingImmediately ==
    /\ greetings <= 1
    /\ started => greetings = 1

\* the text send_greeting returns for a call that timed out
TimeoutTexts ==
    {"Failed to send greeting: Response timeout",
     "Failed to send greeting. error: Response timeout"}

C9_AtMostOnce ==
    /\ inv.ncalls <= 1
    /\ Len(inv.results) <= 1
    /\ (Returned /\ toolCall.outcome = "Timeout") =>
           (Len(inv.results) = 1 /\ inv.results[1] \in TimeoutTexts)

C9_ResolvedOnce ==
    /\ Resolved(diag) => diag' = diag
    /\ (Resolved(toolCall) /\ nInv' = nInv) => toolCall' = toolCall
    /\ (Len(inv.results) = 1 /\ nInv' = nInv) => inv' = inv

\* C9: an outbound call is resolved once and never retried: an invocation
\* of send_greeting makes at most one call and returns at most one result,
\* a call that timed out gives the timeout failure text, and nothing that
\* comes later (a late response) changes a resolved call or a returned
\* result.
C9_ResolvedExactlyOnce == []C9_AtMostOnce /\ [][C9_ResolvedOnce]_vars

\* send_greeting has returned after a timeout while the late response of
\* its call is still on its way
C9_Witness ==
    /\ Returned
    /\ toolCall.outcome = "Timeout"
    /\ "tool" \in late
    /\ Len(inv.results) = 1

\* C10: while an outbound call is pending, the session's audio I/O is not
\* blocked: it can move a frame.
C10_PipelineNotBlocked ==
    (Pending(diag) \/ Pending(toolCall)) => ENABLED AudioIO

\* C11: while a send_greeting invocation waits for its call, the turn that
\* invoked it stays in inference, with no result yet; a result of an
\* invocation that made a call exists only once that call has resolved.
C11_TurnWaitsForTool ==
    /\ toolPc = "await" => (tc = "Inferring" /\ inv.results = <<>>)
    /\ (inv.ncalls >= 1 /\ inv.results # <<>>) => Resolved(toolCall)

\* the call has resolved and the turn is still held for the tool's return
C11_Witness ==
    /\ toolPc = "await"
    /\ Resolved(toolCall)
    /\ tc = "Inferring"

\* C12: the session is started, and the Turn Controller listens, only after
\* the room is connected and a remote participant has joined; until one has
\* joined the entrypoint waits, with no next step, no handler registered
\* and no call made.
C12_NoStartBeforeParticipant ==
    /\ (started \/ tc \in {"Listening", "Transcribing", "Inferring", "Speaking"})
           => (p # None /\ steps # <<>> /\ steps[1] = "connect")
    /\ p = None =>
           /\ remote = <<>>
           /\ pc \in {"connect", "wait", "crashed"}
           /\ pc = "crashed" => crash = "ConnectionError"
           /\ pc = "wait" => ~ENABLED EntryNext
           /\ handlers = {}
           /\ ~Made(diag)
           /\ ~Made(toolCall)

\* the room is connected and empty: the entrypoint waits
C12_Witness ==
    /\ pc = "wait"
    /\ p = None
    /\ remote = <<>>
    /\ steps = <<"connect">>

(* ------------- room disconnect and session termination ---------------- *)

\* the outcome of a call whose task was cancelled while it was pending
Cancelled == "Cancelled"

\* the room disconnects or the session terminates: the pending calls of the
\* session are cancelled, its running tasks get a CancelledError at their
\* await and the Turn Controller ends
Disconnect ==
    /\ Connected
    /\ tc # "Ended"
    /\ tc' = "Ended"
    /\ diag' = IF Pending(diag) THEN [diag EXCEPT !.outcome = Cancelled]
               ELSE diag
    /\ toolCall' = IF Pending(toolCall)
                   THEN [toolCall EXCEPT !.outcome = Cancelled]
                   ELSE toolCall
    /\ pc' = IF pc = "done" THEN pc ELSE "cancelled"
    /\ toolPc' = IF toolPc = "await" THEN "cancelling" ELSE toolPc
    /\ UNCHANGED <<variant, crash, steps, remote, p, handlers, started,
                   greetings, late, inv, nInv, domVars>>

\* send_greeting with a clause that catches every exception: the
\* CancelledError becomes a failure text the tool returns
SendGreetingCancelledCaught ==
    /\ toolPc = "cancelling"
    /\ inv' = [inv EXCEPT !.results =
                   Append(@, IF variant = "agent"
                             THEN "Failed to send greeting. error: "
                             ELSE "Failed to send greeting: ")]
    /\ toolPc' = "idle"
    /\ UNCHANGED <<variant, entryVars, remote, p, tc, diag, toolCall, late,
                   nInv, domVars>>

\* the CancelledError is raised at the await of send_greeting: it is not an
\* Exception, the except clause lets it through and the tool returns nothing
SendGreetingCancelled ==
    /\ toolPc = "cancelling"
    /\ toolPc' = "cancelled"
    /\ UNCHANGED <<variant, entryVars, remote, p, tc, diag, toolCall, late,
                   inv, nInv, domVars>>

CancelNext == Next \/ Disconnect \/ SendGreetingCancelled

CancelSpec == Init /\ [][CancelNext]_vars

\* C13: once the room has disconnected or the session has terminated, the
\* Turn Controller is in Ended, no call is left in flight, the calls that
\* were in flight are cancelled, and the invocation whose call was cancelled
\* has no result, then or later.
C13_CancelledCallNoResult ==
    /\ tc = "Ended" => (~Pending(diag) /\ ~Pending(toolCall))
    /\ \A call \in {diag, toolCall} : call.outcome = Cancelled => tc = "Ended"
    /\ toolPc \in {"cancelling", "cancelled"} =>
           (tc = "Ended" /\ inv.results = <<>>)
    /\ toolCall.outcome = Cancelled =>
           (inv.results = <<>> /\ toolPc \in {"cancelling", "cancelled"})

\* the call of a waiting invocation was cancelled by a disconnect and the
\* CancelledError has left the tool
C13_Witness ==
    /\ toolCall.outcome = Cancelled
    /\ toolPc = "cancelled"
    /\ tc = "Ended"
    /\ inv.results = <<>>

\* C14: when ctx.connect() fails, my_agent ends with the ConnectionError
\* raised to its caller and nothing happens after it: no handler is
\* registered, the session is not started, no call is made; nothing of the
\* setup runs without a connect that succeeded.
C14_ConnectFailureFatal ==
    /\ crash = "ConnectionError" =>
           /\ pc = "crashed"
           /\ steps = <<>>
           /\ tc = "Ended"
           /\ handlers = {}
           /\ ~started
           /\ ~Made(diag)
           /\ ~Made(toolCall)
           /\ ~ENABLED Next
    /\ "connect" \notin SeqToSet(steps) =>
           /\ pc \in {"connect", "crashed"}
           /\ pc = "crashed" => crash = "ConnectionError"
           /\ handlers = {}
           /\ ~started
           /\ ~Made(diag)
           /\ ~Made(toolCall)

\* connecting has failed
C14_Witness ==
    /\ crash = "ConnectionError"
    /\ pc = "crashed"
    /\ steps = <<>>

TurnStates == {"Idle", "AwaitingParticipant", "Listening", "Transcribing",
               "Inferring", "Speaking", "Ended"}

\* the listed transitions of the Turn Controller
TurnTransitions ==
    {<<"Idle", "AwaitingParticipant">>,
     <<"AwaitingParticipant", "Listening">>,
     <<"Listening", "Transcribing">>,
     <<"Transcribing", "Inferring">>,
     <<"Inferring", "Speaking">>,
     <<"Inferring", "Listening">>,
     <<"Speaking", "Listening">>}
        \cup {<<s, "Ended">> : s \in TurnStates \ {"Ended"}}

BetterNext ==
    \/ Connect
    \/ ConnectFails
    \/ BetterSetup
    \/ StartDone
    \/ DiagReturn
    \/ GreetDone
    \/ RoomNext
    \/ RpcNext
    \/ ToolNext
    \/ PipelineNext

\* the session of better_agent.py before my_agent runs
BetterInit == Init /\ variant = "better_agent"

\* perform_rpc ends within its response timeout, and the event loop resumes
\* the send_greeting task once the call it awaits has ended
BetterFairSpec ==
    /\ BetterInit
    /\ [][BetterNext]_vars
    /\ WF_vars(\E outcome \in Outcomes : ResolveTool(outcome))
    /\ WF_vars(SendGreetingReturn)

second_handler(payload) == DomResponse(TRUE, "second handler")

\* the handlers registered under a method
Active(method) == {h \in handlers : h[1] = method}

\* register_rpc_method("dom_elements") is called again, with second_handler
RegisterAgain ==
    /\ <<"dom_elements", "handle_dom_elements_rpc">> \in handlers
    /\ handlers' = Register("dom_elements", "second_handler")
    /\ UNCHANGED <<variant, pc, crash, steps, started, greetings, remote, p,
                   tc, diag, toolCall, late, toolVars, domVars>>

\* a remote participant invokes dom_elements: a handler registered under
\* the method answers
InvokeRegistered(payload) ==
    /\ remote # <<>>
    /\ \E h \in Active("dom_elements") :
           domResp' = IF h[2] = "second_handler" THEN second_handler(payload)
                      ELSE handle_dom_elements_rpc(payload)
    /\ domReq' = payload
    /\ domSeen' = IF domSeen = "failed" \/ ~json_loads(payload).ok
                   THEN "failed" ELSE "ok"
    /\ UNCHANGED <<variant, entryVars, remote, p, tc, diag, toolCall, late,
                   toolVars>>

RegNext ==
    \/ DomNext
    \/ RegisterAgain
    \/ \E payload \in Payloads : InvokeRegistered(payload)

RegSpec == Init /\ [][RegNext]_vars

\* dom_elements has been registered a second time
SecondRegistered == <<"dom_elements", "second_handler">> \in handlers

\* C17: at most one handler is registered under a method name; after
\* dom_elements was registered a second time the one handler is the second,
\* and every invocation from then on is answered by the second handler.
C17_LastRegistrationWins ==
    /\ [](\A h \in handlers : Cardinality(Active(h[1])) = 1)
    /\ [][SecondRegistered =>
             /\ Active("dom_elements")' = {<<"dom_elements", "second_handler">>}
             /\ <<domReq, domResp>>' # <<domReq, domResp>> =>
                    domResp' = second_handler(domReq')]_vars

\* after the second registration an invocation whose payload the first
\* handler would have rejected was answered by the second
C17_Witness ==
    /\ Active("dom_elements") = {<<"dom_elements", "second_handler">>}
    /\ domResp = second_handler(domReq)
    /\ domResp # handle_dom_elements_rpc(domReq)

\* C18: the lookup of the first remote participant after
\* wait_for_participant() has returned never raises: my_agent never ends
\* with an IndexError, whatever joins and leaves came before the lookup.
C18_FirstParticipantLookupNeverRaises ==
    /\ crash # "IndexError"
    /\ ("participant" \in SeqToSet(steps) /\ remote = <<>>) => pc # "crashed"

\* the text of a message occurs in a payload
Carries(payload, message) ==
    \E i \in 1..Len(payload) : payload[i].s = message

\* C19: when send_greeting has returned "Greeting sent to client: m", its
\* invocation made a client.greet call whose payload carries m, to a
\* participant that was among the room's remote participants when the
\* target was chosen, and that call ended with Success.
C19_SuccessTextMeansDelivered ==
    (Returned /\ inv.results = <<"Greeting sent to client: " \o inv.message>>)
        => /\ inv.ncalls = 1
           /\ Made(toolCall)
           /\ toolCall.method = "client.greet"
           /\ Carries(toolCall.payload, inv.message)
           /\ toolCall.dest \in SeqToSet(inv.roomAt)
           /\ toolCall.outcome = "Success"

====
